---- MODULE Spec2Model ----
(***************************************************************************)
(* AutoByteArray (src/wrapper/objects/auto_byte_array.rs): the auto-release *)
(* wrapper around a pointer returned by get_byte_array_elements.           *)
(*                                                                         *)
(* The state is the wrapper's fields, the native calls each wrapper has    *)
(* issued to the JNI environment (in order), the value last returned to    *)
(* the caller, the error! log, and the memory the pointer addresses: the   *)
(* managed array itself (a pin) or a private native copy of it.            *)
(***************************************************************************)
EXTENDS Integers, Sequences, FiniteSets, TLC

\* ------------------------------------------------------------- bounds
\* Native calls (commit, size) one wrapper may issue before it is dropped.
MaxCalls == 2
\* Length of the shorter managed array; the other holds one element more.
ArrLen == 1
\* Pointers are 0..MaxPtr; 0 is the null pointer.
MaxPtr == 2

\* ---------------------------------------------------------- constants
\* sys::JNI_COMMIT, the mode commit() passes.
JNI_COMMIT == 1
\* sys::JNI_ABORT, the discriminant of ReleaseMode::NoCopyBack.
JNI_ABORT == 2
NULL == 0

Sessions == {"s1", "s2"}
\* The wrappers one behaviour of Spec opens.
Solo == {"s1"}
Arrays == {"a1", "a2"}
Ptrs == 0..MaxPtr
\* The bytes a caller writes: two values tell a written element from an untouched one.
Vals == {0, 1}
\* ReleaseMode: the variants the wrapper names.
ReleaseMode == {"CopyBack", "NoCopyBack"}
ExitPaths == {"fallthrough", "early_return", "unwind"}

\* `self.mode as i32`
ModeCode(m) == IF m = "CopyBack" THEN 0 ELSE JNI_ABORT

ArrayLength(a) == IF a = "a1" THEN ArrLen ELSE ArrLen + 1

\* What the managed arrays hold before any wrapper is built.
InitialContents(a) == [i \in 1..ArrayLength(a) |-> i % 2]

VARIABLES
    st,        \* "unopened" | "live" | "dropped" | "failed" (new returned Err)
    obj,       \* self.obj
    ptr,       \* self.ptr
    mode,      \* self.mode
    is_copy,   \* self.is_copy
    args,      \* the arguments new was called with (history)
    ret,       \* the Result last returned to the caller
    calls,     \* the native calls issued through self.env, in order (history)
    nCommit,   \* calls of commit() (history)
    discarded, \* discard() was called (history)
    errlog,    \* lines written by error!
    panicked,  \* drop left by a panic
    exitPath,  \* how the wrapper's scope ended (history)
    heap,      \* the managed arrays' contents
    buf,       \* the private native copy the pointer addresses, when is_copy
    snap       \* the managed array's contents when the wrapper was built (history)

vars == <<st, obj, ptr, mode, is_copy, args, ret, calls, nCommit, discarded,
          errlog, panicked, exitPath, heap, buf, snap>>

NoArgs == [obj |-> "a1", ptr |-> NULL, mode |-> "CopyBack", is_copy |-> FALSE]
NoRet == [tag |-> "none", val |-> 0, err |-> ""]
\* Result: Ok(v) with v a number (0 for a value that is no number), or Err(e).
Ok(v) == [tag |-> "Ok", val |-> v, err |-> ""]
Err(e) == [tag |-> "Err", val |-> 0, err |-> e]
\* What release_byte_array_elements can return.
Results == {Ok(0), Err("JavaException")}

Init ==
    /\ st = [s \in Sessions |-> "unopened"]
    /\ obj = [s \in Sessions |-> "a1"]
    /\ ptr = [s \in Sessions |-> NULL]
    /\ mode = [s \in Sessions |-> "CopyBack"]
    /\ is_copy = [s \in Sessions |-> FALSE]
    /\ args = [s \in Sessions |-> NoArgs]
    /\ ret = [s \in Sessions |-> NoRet]
    /\ calls = [s \in Sessions |-> <<>>]
    /\ nCommit = [s \in Sessions |-> 0]
    /\ discarded = [s \in Sessions |-> FALSE]
    /\ errlog = [s \in Sessions |-> 0]
    /\ panicked = [s \in Sessions |-> FALSE]
    /\ exitPath = [s \in Sessions |-> "none"]
    /\ heap = [a \in Arrays |-> InitialContents(a)]
    /\ buf = [s \in Sessions |-> <<>>]
    /\ snap = [s \in Sessions |-> <<>>]

\* ------------------------------------------------------------ helpers

\* new without the NonNull check.
new_unchecked(o, p, m, c) == Ok([obj |-> o, ptr |-> p, mode |-> m, is_copy |-> c])

\* new building every wrapper with CopyBack.
new_copy_back(o, p, m, c) ==
    IF p = NULL
    THEN Err("NullPtr")
    ELSE Ok([obj |-> o, ptr |-> p, mode |-> "CopyBack", is_copy |-> c])

\* AutoByteArray::new
new(o, p, m, c) ==
    IF p = NULL
    THEN Err("NullPtr")
    ELSE Ok([obj |-> o, ptr |-> p, mode |-> m, is_copy |-> c])

\* AutoByteArray::as_ptr
as_ptr(s) == ptr[s]

\* is_copy answering whether a copy is still to be written back.
is_copy_pending(s) == is_copy[s] /\ mode[s] = "CopyBack"

\* AutoByteArray::is_copy
is_copy_(s) == is_copy[s]

\* jni_void_call!: the call is made, then a failure it reports returns early.
jni_void_call(ok) == IF ok THEN Ok(0) ELSE Err("JavaException")

\* The call with the array's handle in place of the elements pointer.
ReleaseCall_no_ptr(s, code, ok, by) ==
    [fn |-> "ReleaseByteArrayElements", obj |-> obj[s], ptr |-> NULL,
     mode |-> code, ok |-> ok, by |-> by]

\* The call release_byte_array_elements passes to the native interface.
ReleaseCall(s, code, ok, by) ==
    [fn |-> "ReleaseByteArrayElements", obj |-> obj[s], ptr |-> ptr[s],
     mode |-> code, ok |-> ok, by |-> by]

\* What ReleaseByteArrayElements does to the managed array: a copy is written
\* back unless the mode is JNI_ABORT; a pin needs nothing. A call that reports
\* failure may or may not have done it.
ReleaseEffect(s, code, applied) ==
    IF applied /\ is_copy[s] /\ code # JNI_ABORT
    THEN [heap EXCEPT ![obj[s]] = buf[s]]
    ELSE heap

\* release_byte_array_elements ignoring what the native call reports.
release_byte_array_elements_swallow(s, code, ok, applied, by, r) ==
    /\ calls' = [calls EXCEPT ![s] = Append(@, ReleaseCall(s, code, ok, by))]
    /\ heap' = ReleaseEffect(s, code, applied)
    /\ r = Ok(0)

\* AutoByteArray::release_byte_array_elements: the state it leaves and its
\* result in r.
release_byte_array_elements(s, code, ok, applied, by, r) ==
    /\ calls' = [calls EXCEPT ![s] = Append(@, ReleaseCall(s, code, ok, by))]
    /\ heap' = ReleaseEffect(s, code, applied)
    /\ r = jni_void_call(ok)

\* ------------------------------------------------------------ actions

\* The caller acquires the elements of array o and builds the wrapper.
Open(s) ==
    /\ st[s] = "unopened"
    /\ \E o \in Arrays, p \in Ptrs, m \in ReleaseMode, c \in BOOLEAN :
        LET r == new(o, p, m, c) IN
        /\ args' = [args EXCEPT ![s] = [obj |-> o, ptr |-> p, mode |-> m, is_copy |-> c]]
        /\ IF r.tag = "Ok"
           THEN /\ st' = [st EXCEPT ![s] = "live"]
                /\ obj' = [obj EXCEPT ![s] = r.val.obj]
                /\ ptr' = [ptr EXCEPT ![s] = r.val.ptr]
                /\ mode' = [mode EXCEPT ![s] = r.val.mode]
                /\ is_copy' = [is_copy EXCEPT ![s] = r.val.is_copy]
                /\ ret' = [ret EXCEPT ![s] = Ok(0)]
                /\ buf' = [buf EXCEPT ![s] = IF c THEN heap[o] ELSE <<>>]
                /\ snap' = [snap EXCEPT ![s] = heap[o]]
           ELSE /\ st' = [st EXCEPT ![s] = "failed"]
                /\ ret' = [ret EXCEPT ![s] = r]
                /\ UNCHANGED <<obj, ptr, mode, is_copy, buf, snap>>
    /\ UNCHANGED <<calls, nCommit, discarded, errlog, panicked, exitPath, heap>>

\* The caller writes v at index i through as_ptr().
Write(s) ==
    /\ st[s] = "live"
    /\ \E i \in 1..ArrayLength(obj[s]), v \in Vals :
        IF is_copy[s]
        THEN /\ buf' = [buf EXCEPT ![s][i] = v]
             /\ UNCHANGED heap
        ELSE /\ heap' = [heap EXCEPT ![obj[s]][i] = v]
             /\ UNCHANGED buf
    /\ UNCHANGED <<st, obj, ptr, mode, is_copy, args, ret, calls, nCommit,
                   discarded, errlog, panicked, exitPath, snap>>

\* commit passing the wrapper's own release mode.
CommitMode_self(s) == ModeCode(mode[s])

\* The mode commit passes: sys::JNI_COMMIT, whatever self.mode is.
CommitMode(s) == JNI_COMMIT

\* commit putting the wrapper back to CopyBack.
Commit_restores(s) ==
    /\ st[s] = "live"
    /\ Len(calls[s]) < MaxCalls
    /\ \E ok \in BOOLEAN, applied \in BOOLEAN, r \in Results :
        /\ ok => applied
        /\ release_byte_array_elements(s, JNI_COMMIT, ok, applied, "commit", r)
        /\ ret' = [ret EXCEPT ![s] = r]
    /\ nCommit' = [nCommit EXCEPT ![s] = @ + 1]
    /\ mode' = [mode EXCEPT ![s] = "CopyBack"]
    /\ UNCHANGED <<st, obj, ptr, is_copy, args, discarded, errlog,
                   panicked, exitPath, buf, snap>>

\* commit giving up the changes when the release reports failure.
Commit_poisons(s) ==
    /\ st[s] = "live"
    /\ Len(calls[s]) < MaxCalls
    /\ \E ok \in BOOLEAN, applied \in BOOLEAN, r \in Results :
        /\ ok => applied
        /\ release_byte_array_elements(s, JNI_COMMIT, ok, applied, "commit", r)
        /\ ret' = [ret EXCEPT ![s] = r]
        /\ mode' = [mode EXCEPT ![s] = IF r.tag = "Err" THEN "NoCopyBack" ELSE @]
    /\ nCommit' = [nCommit EXCEPT ![s] = @ + 1]
    /\ UNCHANGED <<st, obj, ptr, is_copy, args, discarded, errlog,
                   panicked, exitPath, buf, snap>>

\* AutoByteArray::commit
Commit(s) ==
    /\ st[s] = "live"
    /\ Len(calls[s]) < MaxCalls
    /\ \E ok \in BOOLEAN, applied \in BOOLEAN, r \in Results :
        /\ ok => applied
        /\ release_byte_array_elements(s, CommitMode(s), ok, applied, "commit", r)
        /\ ret' = [ret EXCEPT ![s] = r]
    /\ nCommit' = [nCommit EXCEPT ![s] = @ + 1]
    /\ UNCHANGED <<st, obj, ptr, mode, is_copy, args, discarded, errlog,
                   panicked, exitPath, buf, snap>>

\* discard on a mode that all wrappers share.
Discard_shared(s) ==
    /\ st[s] = "live"
    /\ mode' = [t \in Sessions |-> "NoCopyBack"]
    /\ discarded' = [discarded EXCEPT ![s] = TRUE]
    /\ UNCHANGED <<st, obj, ptr, is_copy, args, ret, calls, nCommit, errlog,
                   panicked, exitPath, heap, buf, snap>>

\* discard doing nothing when the array is not a copy.
Discard_if_copy(s) ==
    /\ st[s] = "live"
    /\ mode' = [mode EXCEPT ![s] = IF is_copy[s] THEN "NoCopyBack" ELSE @]
    /\ discarded' = [discarded EXCEPT ![s] = TRUE]
    /\ UNCHANGED <<st, obj, ptr, is_copy, args, ret, calls, nCommit, errlog,
                   panicked, exitPath, heap, buf, snap>>

\* discard leaving the mode as it is.
Discard_noop(s) ==
    /\ st[s] = "live"
    /\ discarded' = [discarded EXCEPT ![s] = TRUE]
    /\ UNCHANGED <<st, obj, ptr, mode, is_copy, args, ret, calls, nCommit, errlog,
                   panicked, exitPath, heap, buf, snap>>

\* AutoByteArray::discard
Discard(s) ==
    /\ st[s] = "live"
    /\ mode' = [mode EXCEPT ![s] = "NoCopyBack"]
    /\ discarded' = [discarded EXCEPT ![s] = TRUE]
    /\ UNCHANGED <<st, obj, ptr, is_copy, args, ret, calls, nCommit, errlog,
                   panicked, exitPath, heap, buf, snap>>

\* JNIEnv::get_array_length on array a: its length, or the failure the
\* environment reports.
get_array_length(a, ok) == IF ok THEN Ok(Len(heap[a])) ELSE Err("JavaException")

\* size answering 0 when the length query fails.
Size_or_zero(s) ==
    /\ st[s] = "live"
    /\ Len(calls[s]) < MaxCalls
    /\ \E ok \in BOOLEAN :
        /\ calls' = [calls EXCEPT ![s] =
                        Append(@, [fn |-> "GetArrayLength", obj |-> obj[s], ok |-> ok])]
        /\ ret' = [ret EXCEPT ![s] = Ok(get_array_length(obj[s], ok).val)]
    /\ UNCHANGED <<st, obj, ptr, mode, is_copy, args, nCommit, discarded,
                   errlog, panicked, exitPath, heap, buf, snap>>

\* AutoByteArray::size
Size(s) ==
    /\ st[s] = "live"
    /\ Len(calls[s]) < MaxCalls
    /\ \E ok \in BOOLEAN :
        /\ calls' = [calls EXCEPT ![s] =
                        Append(@, [fn |-> "GetArrayLength", obj |-> obj[s], ok |-> ok])]
        /\ ret' = [ret EXCEPT ![s] = get_array_length(obj[s], ok)]
    /\ UNCHANGED <<st, obj, ptr, mode, is_copy, args, nCommit, discarded,
                   errlog, panicked, exitPath, heap, buf, snap>>

\* drop passing the mode the wrapper was built with.
DropMode_initial(s) == ModeCode(args[s].mode)

\* drop passing the mode commit passes.
DropMode_commit(s) == JNI_COMMIT

\* drop passing the code of CopyBack whatever the mode is.
DropMode_copy_back(s) == ModeCode("CopyBack")

\* The mode drop passes: `self.mode as i32`.
DropMode(s) == ModeCode(mode[s])

\* drop unwrapping the result of the release.
DropOutcome_unwrap(r) == [logged |-> FALSE, panic |-> r.tag = "Err"]

\* drop's match on the result of the release: an Err is written to the log
\* with error! and drop returns normally either way.
DropOutcome(r) == [logged |-> r.tag = "Err", panic |-> FALSE]

\* drop releasing only a copy, as if a pin needed no release.
Drop_copy_only(s) ==
    /\ st[s] = "live"
    /\ \E path \in ExitPaths, ok \in BOOLEAN, applied \in BOOLEAN, r \in Results :
        /\ ok => applied
        /\ IF is_copy[s]
           THEN release_byte_array_elements(s, ModeCode(mode[s]), ok, applied, "drop", r)
           ELSE r = Ok(0) /\ UNCHANGED <<calls, heap>>
        /\ errlog' = [errlog EXCEPT ![s] = IF r.tag = "Err" THEN @ + 1 ELSE @]
        /\ exitPath' = [exitPath EXCEPT ![s] = path]
    /\ st' = [st EXCEPT ![s] = "dropped"]
    /\ UNCHANGED <<obj, ptr, mode, is_copy, args, ret, nCommit, discarded,
                   panicked, buf, snap>>

\* drop releasing a second time when the first release reported failure.
Drop_retry(s) ==
    /\ st[s] = "live"
    /\ \E path \in ExitPaths, ok \in BOOLEAN, applied \in BOOLEAN, r \in Results :
        /\ ok => applied
        /\ r = jni_void_call(ok)
        /\ LET c == ReleaseCall(s, ModeCode(mode[s]), ok, "drop") IN
           calls' = [calls EXCEPT ![s] = IF ok THEN Append(@, c) ELSE @ \o <<c, c>>]
        /\ heap' = ReleaseEffect(s, ModeCode(mode[s]), applied)
        /\ errlog' = [errlog EXCEPT ![s] = IF r.tag = "Err" THEN @ + 1 ELSE @]
        /\ exitPath' = [exitPath EXCEPT ![s] = path]
    /\ st' = [st EXCEPT ![s] = "dropped"]
    /\ UNCHANGED <<obj, ptr, mode, is_copy, args, ret, nCommit, discarded,
                   panicked, buf, snap>>

\* drop committing after its release instead of before it.
Drop_then_commit(s) ==
    /\ st[s] = "live"
    /\ \E path \in ExitPaths, ok \in BOOLEAN, applied \in BOOLEAN, r \in Results :
        /\ ok => applied
        /\ r = jni_void_call(ok)
        /\ calls' = [calls EXCEPT ![s] =
                @ \o <<ReleaseCall(s, ModeCode(mode[s]), ok, "drop"),
                       ReleaseCall(s, JNI_COMMIT, ok, "commit")>>]
        /\ heap' = ReleaseEffect(s, ModeCode(mode[s]), applied)
        /\ errlog' = [errlog EXCEPT ![s] = IF r.tag = "Err" THEN @ + 1 ELSE @]
        /\ exitPath' = [exitPath EXCEPT ![s] = path]
    /\ st' = [st EXCEPT ![s] = "dropped"]
    /\ UNCHANGED <<obj, ptr, mode, is_copy, args, ret, nCommit, discarded,
                   panicked, buf, snap>>

\* Drop for AutoByteArray: the wrapper's scope ends, by any path.
Drop(s) ==
    /\ st[s] = "live"
    /\ \E path \in ExitPaths, ok \in BOOLEAN, applied \in BOOLEAN, r \in Results :
        /\ ok => applied
        /\ release_byte_array_elements(s, DropMode(s), ok, applied, "drop", r)
        /\ errlog' = [errlog EXCEPT ![s] = IF DropOutcome(r).logged THEN @ + 1 ELSE @]
        /\ panicked' = [panicked EXCEPT ![s] = DropOutcome(r).panic]
        /\ exitPath' = [exitPath EXCEPT ![s] = path]
    /\ st' = [st EXCEPT ![s] = "dropped"]
    /\ UNCHANGED <<obj, ptr, mode, is_copy, args, ret, nCommit, discarded, buf, snap>>

Next ==
    \E s \in Solo :
        \/ Open(s)
        \/ Write(s)
        \/ Commit(s)
        \/ Discard(s)
        \/ Size(s)
        \/ Drop(s)

Spec == Init /\ [][Next]_vars

\* A scope that was entered is left: drop runs when the wrapper's scope ends.
FairSpec == Spec /\ \A s \in Solo : WF_vars(Drop(s))

\* Several wrappers on one environment, their operations interleaved in any
\* order. Each is built on a pointer of its own (or on null), issues at most
\* one native call before it is dropped, and is not written through.
FirstCall(s) == calls[s] = <<>>
OwnPtr(s) == IF s = "s1" THEN 1 ELSE MaxPtr

NextMulti ==
    \E s \in Sessions :
        \/ Open(s) /\ args'[s].ptr \in {NULL, OwnPtr(s)}
        \/ FirstCall(s) /\ Commit(s)
        \/ Discard(s)
        \/ FirstCall(s) /\ Size(s)
        \/ Drop(s)

MultiSpec == Init /\ [][NextMulti]_vars

\* ------------------------------------------------------------- claims

IsRelease(e) == e.fn = "ReleaseByteArrayElements"
\* The release calls wrapper s has issued, all / from drop / from commit.
ReleaseCalls(s) == SelectSeq(calls[s], IsRelease)
IsDropRelease(e) == IsRelease(e) /\ e.by = "drop"
DropCalls(s) == SelectSeq(calls[s], IsDropRelease)
IsCommitRelease(e) == IsRelease(e) /\ e.by = "commit"
CommitCalls(s) == SelectSeq(calls[s], IsCommitRelease)
LastCall(s) == calls[s][Len(calls[s])]
Built(s) == st[s] \in {"live", "dropped"}

C2_ScopeExit ==
    /\ \A s \in Sessions : (st[s] = "live") ~> (st[s] = "dropped")
    /\ [](\A s \in Sessions :
            /\ Len(DropCalls(s)) = (IF st[s] = "dropped" THEN 1 ELSE 0)
            /\ st[s] = "dropped" <=> exitPath[s] \in ExitPaths)

C2_Witness ==
    \E s \in Sessions :
        /\ st[s] = "dropped" /\ exitPath[s] = "unwind"
        /\ ret[s].tag = "Err" /\ nCommit[s] > 0
        /\ ~LastCall(s).ok /\ Len(DropCalls(s)) = 1

\* C3: new called with a null pointer returns Err(NullPtr) whatever the array,
\* mode and copy flag; no wrapper exists afterwards and no native call is ever
\* issued for it.
C3_NullPtr ==
    \A s \in Sessions :
        (st[s] # "unopened" /\ args[s].ptr = NULL) =>
            /\ st[s] = "failed"
            /\ ret[s] = Err("NullPtr")
            /\ calls[s] = <<>>

C3_Witness ==
    \E s \in Sessions :
        /\ st[s] = "failed" /\ args[s].ptr = NULL
        /\ args[s].mode = "NoCopyBack" /\ args[s].is_copy /\ args[s].obj = "a2"

\* C4: once discard() has been called the wrapper's mode is NoCopyBack until
\* it is dropped, and the release from drop passes the code of NoCopyBack,
\* whatever mode the wrapper was built with.
C4_DiscardThenDrop ==
    \A s \in Sessions :
        discarded[s] =>
            /\ mode[s] = "NoCopyBack"
            /\ st[s] = "dropped" =>
                (IsDropRelease(LastCall(s)) /\ LastCall(s).mode = ModeCode("NoCopyBack"))

C4_Witness ==
    \E s \in Sessions :
        /\ st[s] = "dropped" /\ discarded[s] /\ args[s].mode = "CopyBack"
        /\ nCommit[s] > 0 /\ LastCall(s).mode # ModeCode(args[s].mode)

\* C5: every call of commit() appends exactly one ReleaseByteArrayElements
\* call with mode JNI_COMMIT on the wrapper's array and pointer, and leaves
\* the wrapper live with its pointer, mode and copy flag unchanged and its
\* release from drop still to come.
C5_Commit ==
    [][\A s \in Sessions :
        nCommit'[s] # nCommit[s] =>
            /\ nCommit'[s] = nCommit[s] + 1
            /\ Len(calls'[s]) = Len(calls[s]) + 1
            /\ SubSeq(calls'[s], 1, Len(calls[s])) = calls[s]
            /\ IsCommitRelease(LastCall(s)')
            /\ LastCall(s)'.mode = JNI_COMMIT
            /\ LastCall(s)'.obj = args[s].obj
            /\ LastCall(s)'.ptr = args[s].ptr
            /\ st[s] = "live" /\ st'[s] = "live"
            /\ as_ptr(s)' = as_ptr(s) /\ as_ptr(s)' = args[s].ptr
            /\ mode'[s] = mode[s] /\ is_copy'[s] = is_copy[s]
            /\ Len(DropCalls(s)') = 0]_vars

C5_Witness ==
    \E s \in Sessions :
        /\ st[s] = "live" /\ nCommit[s] = 2 /\ mode[s] = "NoCopyBack"
        /\ Len(CommitCalls(s)) = 2 /\ ~is_copy[s]

C7_IsCopyFixed ==
    \A s \in Sessions : Built(s) => is_copy_(s) = args[s].is_copy

C7_Witness ==
    \E s \in Sessions :
        /\ st[s] = "live" /\ args[s].is_copy /\ is_copy_(s)
        /\ discarded[s] /\ nCommit[s] > 0 /\ ret[s].tag = "Err"

\* C8: when the release from drop reports failure, drop still returns
\* normally: the failure is written to the log once, nothing is raised, the
\* wrapper is gone, and the release was issued once; a release that succeeds
\* writes nothing to the log.
C8_DropFailureLogged ==
    \A s \in Sessions :
        /\ ~panicked[s]
        /\ st[s] = "dropped" =>
            /\ Len(DropCalls(s)) = 1
            /\ IsDropRelease(LastCall(s))
            /\ errlog[s] = (IF LastCall(s).ok THEN 0 ELSE 1)
        /\ st[s] # "dropped" => errlog[s] = 0

C8_Witness ==
    \E s \in Sessions :
        /\ st[s] = "dropped" /\ ~LastCall(s).ok /\ errlog[s] = 1
        /\ ~panicked[s] /\ Len(DropCalls(s)) = 1

\* C9: commit() returns Err exactly when the ReleaseByteArrayElements call it
\* issued reported failure, and Ok(()) exactly when that call succeeded.
C9_CommitPropagates ==
    [][\A s \in Sessions :
        nCommit'[s] # nCommit[s] =>
            /\ IsCommitRelease(LastCall(s)')
            /\ ret'[s] = (IF LastCall(s)'.ok THEN Ok(0) ELSE Err("JavaException"))]_vars

C9_Witness ==
    \E s \in Sessions :
        /\ st[s] = "live" /\ nCommit[s] > 0 /\ IsCommitRelease(LastCall(s))
        /\ ~LastCall(s).ok /\ ret[s].tag = "Err"

\* C10: a wrapper over a copy that was written through, never committed,
\* discarded and then dropped releases with the code of NoCopyBack, and the
\* managed array holds what it held when the wrapper was built.
C10_DiscardKeepsArray ==
    \A s \in Sessions :
        (st[s] = "dropped" /\ args[s].is_copy /\ nCommit[s] = 0 /\ discarded[s]) =>
            /\ IsDropRelease(LastCall(s))
            /\ LastCall(s).mode = ModeCode("NoCopyBack")
            /\ heap[obj[s]] = snap[s]

C10_Witness ==
    \E s \in Sessions :
        /\ st[s] = "dropped" /\ args[s].is_copy /\ nCommit[s] = 0 /\ discarded[s]
        /\ args[s].mode = "CopyBack"
        /\ buf[s] # snap[s] /\ heap[obj[s]] = snap[s]

\* C11: on a wrapper over a pin (is_copy false) every call of commit() issues
\* a release with JNI_COMMIT, leaves the wrapper live with its pointer, and
\* leaves the managed array holding what it held before the call: what was
\* written through the pointer was in the array already.
C11_CommitOnPin ==
    [][\A s \in Sessions :
        (nCommit'[s] # nCommit[s] /\ ~args[s].is_copy) =>
            /\ IsCommitRelease(LastCall(s)')
            /\ LastCall(s)'.mode = JNI_COMMIT
            /\ st'[s] = "live"
            /\ as_ptr(s)' = args[s].ptr
            /\ heap' = heap]_vars

C11_Witness ==
    \E s \in Sessions :
        /\ st[s] = "live" /\ ~args[s].is_copy /\ nCommit[s] > 0
        /\ IsCommitRelease(LastCall(s)) /\ LastCall(s).ok
        /\ heap[obj[s]] # snap[s]

\* C12: every call of size() issues one GetArrayLength query on the array the
\* wrapper was built on and returns what that query gives, the array's length
\* or the failure; it issues no release and changes no field and no memory.
C12_Size ==
    [][\A s \in Sessions :
        (Len(calls'[s]) > Len(calls[s]) /\ ~IsRelease(LastCall(s)')) =>
            /\ calls'[s] = Append(calls[s],
                    [fn |-> "GetArrayLength", obj |-> args[s].obj, ok |-> LastCall(s)'.ok])
            /\ ret'[s] = (IF LastCall(s)'.ok
                          THEN Ok(ArrayLength(args[s].obj))
                          ELSE Err("JavaException"))
            /\ ReleaseCalls(s)' = ReleaseCalls(s)
            /\ st'[s] = "live" /\ st[s] = "live"
            /\ mode'[s] = mode[s] /\ is_copy'[s] = is_copy[s]
            /\ ptr'[s] = ptr[s] /\ obj'[s] = obj[s]
            /\ heap' = heap /\ buf' = buf]_vars

C12_Witness ==
    \E s \in Sessions :
        /\ st[s] = "live" /\ discarded[s] /\ nCommit[s] > 0
        /\ ~IsRelease(LastCall(s)) /\ LastCall(s).ok
        /\ ret[s] = Ok(ArrayLength(obj[s])) /\ obj[s] = "a2"

\* All that belongs to wrapper s.
Local(s) ==
    <<st[s], obj[s], ptr[s], mode[s], is_copy[s], args[s], ret[s], calls[s],
      nCommit[s], discarded[s], errlog[s], panicked[s], exitPath[s], buf[s]>>

\* C13: with several wrappers open on one environment, a step of one wrapper
\* changes nothing that belongs to another, and each wrapper, once dropped,
\* has issued one release from drop, with the array and pointer it was built
\* with and its own mode: NoCopyBack if it was discarded, else the mode it was
\* built with.
C13_Independent ==
    [][\A s \in Sessions :
        /\ Local(s)' # Local(s) => \A t \in Sessions \ {s} : Local(t)' = Local(t)
        /\ st'[s] = "dropped" =>
            /\ Len(DropCalls(s)') = 1
            /\ IsDropRelease(LastCall(s)')
            /\ LastCall(s)'.obj = args'[s].obj
            /\ LastCall(s)'.ptr = args'[s].ptr
            /\ LastCall(s)'.mode = ModeCode(mode'[s])
            /\ mode'[s] = (IF discarded'[s] THEN "NoCopyBack" ELSE args'[s].mode)]_vars

C13_Witness ==
    /\ st["s1"] = "dropped" /\ st["s2"] = "dropped"
    /\ obj["s1"] = obj["s2"] /\ ptr["s1"] # ptr["s2"]
    /\ args["s1"].mode = "CopyBack" /\ args["s2"].mode = "CopyBack"
    /\ discarded["s1"] /\ ~discarded["s2"]
    /\ nCommit["s1"] = 1 /\ nCommit["s2"] = 1
    /\ LastCall("s1").mode # LastCall("s2").mode

\* C14: every ReleaseByteArrayElements call a wrapper issues, from commit()
\* and from drop, passes the array and the pointer new was given; the call
\* from drop passes the code of the wrapper's mode at that moment, which is
\* the mode new was given if discard() was never called.
C14_ReleaseArguments ==
    \A s \in Sessions :
        /\ \A i \in DOMAIN calls[s] :
              IsRelease(calls[s][i]) =>
                  /\ calls[s][i].obj = args[s].obj
                  /\ calls[s][i].ptr = args[s].ptr
                  /\ calls[s][i].ptr # NULL
        /\ st[s] = "dropped" =>
              /\ IsDropRelease(LastCall(s))
              /\ LastCall(s).mode = ModeCode(mode[s])
              /\ ~discarded[s] => LastCall(s).mode = ModeCode(args[s].mode)

C14_Witness ==
    \E s \in Sessions :
        /\ st[s] = "dropped" /\ ~discarded[s] /\ nCommit[s] = 2
        /\ args[s].mode = "NoCopyBack" /\ args[s].obj = "a2" /\ args[s].ptr = MaxPtr
        /\ LastCall(s).ptr = MaxPtr /\ LastCall(s).obj = "a2"

\* C15: a call of discard() on a live wrapper sets its mode to NoCopyBack,
\* copy or pin, and changes nothing else: no native call is issued, the
\* pointer, array, copy flag, last result and all memory stay as they are,
\* nothing is raised, and on a wrapper already discarded it changes nothing
\* at all.
C15_Discard ==
    [][\A s \in Sessions :
        (st[s] = "live" /\ (Discard(s) \/ discarded'[s] # discarded[s])) =>
            /\ mode'[s] = "NoCopyBack"
            /\ discarded'[s]
            /\ calls' = calls /\ heap' = heap /\ buf' = buf
            /\ st' = st /\ obj' = obj /\ ptr' = ptr /\ is_copy' = is_copy
            /\ ret' = ret /\ errlog' = errlog /\ panicked' = panicked
            /\ discarded[s] => mode'[s] = mode[s]]_vars

C15_Witness ==
    \E s \in Sessions :
        /\ st[s] = "live" /\ discarded[s] /\ ~is_copy[s]
        /\ args[s].mode = "CopyBack" /\ mode[s] = "NoCopyBack"
        /\ calls[s] = <<>>

\* C16: a call of new that succeeds issues no native call and touches no
\* memory, and the wrapper it returns holds the array, pointer, mode and copy
\* flag it was given; a wrapper not yet built, or not built because the
\* pointer was null, has issued no native call, and the first call of a built
\* one comes from commit(), size() or drop.
C16_New ==
    [][\A s \in Sessions :
        /\ (st[s] = "unopened" /\ st'[s] = "live") =>
            /\ calls' = calls /\ calls'[s] = <<>>
            /\ heap' = heap
            /\ args'[s].ptr # NULL
            /\ obj'[s] = args'[s].obj /\ ptr'[s] = args'[s].ptr
            /\ mode'[s] = args'[s].mode /\ is_copy'[s] = args'[s].is_copy
        /\ st'[s] \in {"unopened", "failed"} => calls'[s] = <<>>
        /\ calls[s] = <<>> /\ calls'[s] # <<>> =>
            /\ st[s] = "live" /\ Len(calls'[s]) = 1
            /\ \/ IsCommitRelease(calls'[s][1]) /\ nCommit'[s] = 1
               \/ IsDropRelease(calls'[s][1]) /\ st'[s] = "dropped"
               \/ calls'[s][1].fn = "GetArrayLength"]_vars

C16_Witness ==
    \E s \in Sessions :
        /\ st[s] = "live" /\ calls[s] = <<>> /\ heap[obj[s]] = snap[s]
        /\ mode[s] = "NoCopyBack" /\ is_copy[s] /\ obj[s] = "a2" /\ ptr[s] = MaxPtr
        /\ ~discarded[s]

\* The codes ReleaseByteArrayElements is passed: commit-and-continue by
\* commit(), and those of the two release modes by drop.
NativeCodes == {JNI_COMMIT} \cup {ModeCode(m) : m \in ReleaseMode}

\* C17: the three modes have three different codes, so the code of a call
\* tells its mode: every release from commit() passes JNI_COMMIT, and the
\* release from drop passes the code of the wrapper's mode and of no other
\* mode.
C17_ModeCodes ==
    /\ Cardinality(NativeCodes) = 3
    /\ \A s \in Sessions : \A i \in DOMAIN calls[s] :
        LET e == calls[s][i] IN
        IsRelease(e) =>
            /\ e.mode \in NativeCodes
            /\ e.by = "commit" => e.mode = JNI_COMMIT
            /\ e.by = "drop" =>
                \A m \in ReleaseMode : (e.mode = ModeCode(m)) <=> (m = mode[s])

C17_Witness ==
    \E s \in Sessions :
        /\ st[s] = "dropped" /\ Len(calls[s]) = 3
        /\ calls[s][1].fn = "ReleaseByteArrayElements"
        /\ calls[s][2].fn = "ReleaseByteArrayElements"
        /\ calls[s][1].mode = JNI_COMMIT
        /\ calls[s][3].mode = ModeCode("NoCopyBack")
        /\ args[s].mode = "CopyBack"

\* C18: the mode of a built wrapper is the mode new was given or NoCopyBack;
\* a step that changes it is a discard (it issues no call and returns
\* nothing), and once it is NoCopyBack it stays NoCopyBack.
C18_ModeOnlyByDiscard ==
    [][\A s \in Sessions :
        /\ Built(s)' => mode'[s] \in {args'[s].mode, "NoCopyBack"}
        /\ (Built(s) /\ mode'[s] # mode[s]) =>
            /\ st[s] = "live" /\ mode'[s] = "NoCopyBack" /\ discarded'[s]
            /\ calls' = calls /\ ret' = ret /\ nCommit' = nCommit
        /\ (Built(s) /\ mode[s] = "NoCopyBack") => mode'[s] = "NoCopyBack"
        /\ (Built(s) /\ ~discarded'[s]) => mode'[s] = args'[s].mode]_vars

C18_Witness ==
    \E s \in Sessions :
        /\ st[s] = "live" /\ discarded[s] /\ args[s].mode = "CopyBack"
        /\ mode[s] = "NoCopyBack" /\ Len(calls[s]) = 2
        /\ IsCommitRelease(calls[s][1]) /\ ~calls[s][1].ok
        /\ calls[s][2].fn = "GetArrayLength"

\* C19: the release from drop is the last native call of a wrapper: in its
\* list of calls it stands last and alone, and once the wrapper is dropped
\* nothing that belongs to it changes any more, no call, no result, no write
\* through its pointer.
C19_DropIsLast ==
    [][\A s \in Sessions :
        /\ \A i \in DOMAIN calls'[s] :
              IsDropRelease(calls'[s][i]) <=> (st'[s] = "dropped" /\ i = Len(calls'[s]))
        /\ st[s] = "dropped" =>
              /\ Local(s)' = Local(s)
              /\ heap'[obj[s]] = heap[obj[s]]]_vars

C19_Witness ==
    \E s \in Sessions :
        /\ st[s] = "dropped" /\ Len(calls[s]) = 3
        /\ IsCommitRelease(calls[s][1])
        /\ calls[s][2].fn = "GetArrayLength"
        /\ IsDropRelease(calls[s][3])

\* C20: a call of commit() that returns Err leaves the wrapper live with the
\* pointer, array, mode and copy flag it had; a live wrapper can always be
\* dropped, and one that is dropped after a failed commit() has issued one
\* release from drop, with the code of its mode at that moment.
C20_FailedCommit ==
    /\ [][\A s \in Sessions :
            (nCommit'[s] # nCommit[s] /\ ret'[s].tag = "Err") =>
                /\ st[s] = "live" /\ st'[s] = "live"
                /\ ptr'[s] = ptr[s] /\ obj'[s] = obj[s]
                /\ mode'[s] = mode[s] /\ is_copy'[s] = is_copy[s]
                /\ Len(DropCalls(s)') = 0]_vars
    /\ [](\A s \in Sessions :
            /\ st[s] = "live" => ENABLED Drop(s)
            /\ (st[s] = "dropped" /\ \E i \in DOMAIN calls[s] :
                    IsCommitRelease(calls[s][i]) /\ ~calls[s][i].ok) =>
                /\ Len(DropCalls(s)) = 1
                /\ IsDropRelease(LastCall(s))
                /\ LastCall(s).mode = ModeCode(mode[s])
                /\ mode[s] = (IF discarded[s] THEN "NoCopyBack" ELSE args[s].mode))

C20_Witness ==
    \E s \in Sessions :
        /\ st[s] = "dropped" /\ Len(calls[s]) = 2
        /\ IsCommitRelease(calls[s][1]) /\ ~calls[s][1].ok
        /\ IsDropRelease(calls[s][2]) /\ calls[s][2].mode = ModeCode("CopyBack")
        /\ ~discarded[s]

====
